---- MODULE Spec2Model ----
(***************************************************************************)
(* Model of the kabaddi question-answering bot of src/llm.py (class        *)
(* TrueLLM): the dialogue policy `answer`, the relevance scorer            *)
(* `find_relevant_context`, the response composer `generate_response` and  *)
(* the sarcasm overlay, over the reference corpus KABADDI_CORPUS.          *)
(*                                                                         *)
(* Texts are TLA+ strings; characters are one-character strings.  Input    *)
(* texts are ASCII without line breaks.  The emoji of the source's replies *)
(* cannot be written in a TLA+ string and are spelled [mask], [eyeroll],   *)
(* [star], [clap] and [wave].                                              *)
(***************************************************************************)
EXTENDS Integers, Sequences, FiniteSets, TLC

VARIABLES sarcasm_mode, question_history, question, reply, outcome, branch, turns,
          candidate, score, tokens, retokenized,
          chat, user_input, farewells, printed

\* the bot, and what the last call of answer did
answer_vars == <<sarcasm_mode, question_history, question, reply, outcome, branch>>

\* the last call of the scorer's loop body and of tokenize
text_vars == <<candidate, score, tokens, retokenized>>

\* the loop of interactive_chat
chat_vars == <<chat, user_input, farewells, printed>>

vars == <<answer_vars, turns, text_vars, chat_vars>>

(***************************************************************************)
(* Characters and the Python string primitives the source uses.            *)
(***************************************************************************)
LowerLetters == "abcdefghijklmnopqrstuvwxyz"

UpperLetters == "ABCDEFGHIJKLMNOPQRSTUVWXYZ"

Digits == "0123456789"

Char(s, i) == SubSeq(s, i, i)

CharsOf(s) == {Char(s, i) : i \in 1..Len(s)}

LowerSet == CharsOf(LowerLetters)

UpperSet == CharsOf(UpperLetters)

DigitSet == CharsOf(Digits)

\* \s of the re module and the separators of str.split() and str.strip()
WhitespaceSet == {" ", "\t"}

\* the characters [.!?] that end a sentence
PunctSet == {".", "!", "?"}

LowerMap == [c \in UpperSet |-> Char(LowerLetters, CHOOSE i \in 1..26 : Char(UpperLetters, i) = c)]

MinOf(S) == CHOOSE x \in S : \A y \in S : x <= y

MaxOf(S) == CHOOSE x \in S : \A y \in S : x >= y

\* the k-th smallest element of a set of numbers
Kth(S, k) == CHOOSE x \in S : Cardinality({y \in S : y < x}) = k - 1

\* pieces[lo] \o ... \o pieces[hi], for strings
RECURSIVE concat(_, _, _)
concat(pieces, lo, hi) ==
    IF lo > hi THEN ""
    ELSE IF lo = hi THEN pieces[lo]
    ELSE LET mid == (lo + hi) \div 2
         IN  concat(pieces, lo, mid) \o concat(pieces, mid + 1, hi)

\* lists[lo] \o ... \o lists[hi], for lists
RECURSIVE flatten(_, _, _)
flatten(lists, lo, hi) ==
    IF lo > hi THEN <<>>
    ELSE IF lo = hi THEN lists[lo]
    ELSE LET mid == (lo + hi) \div 2
         IN  flatten(lists, lo, mid) \o flatten(lists, mid + 1, hi)

lower_char(c) == IF c \in UpperSet THEN LowerMap[c] ELSE c

\* str.lower()
lower(s) == concat([i \in 1..Len(s) |-> lower_char(Char(s, i))], 1, Len(s))

\* str.strip()
strip(s) ==
    LET kept == {i \in 1..Len(s) : Char(s, i) \notin WhitespaceSet}
    IN  IF kept = {} THEN "" ELSE SubSeq(s, MinOf(kept), MaxOf(kept))

\* whether the literal lit occurs in s at index i
At(s, i, lit) == i >= 1 /\ i + Len(lit) - 1 <= Len(s) /\ SubSeq(s, i, i + Len(lit) - 1) = lit

\* str.startswith / re.match(r'^lit')
startswith(s, p) == At(s, 1, p)

\* str.endswith
endswith(s, p) == At(s, Len(s) - Len(p) + 1, p)

\* the first index >= from at which sub occurs in s, 0 when there is none
IndexOf(sub, s, from) ==
    LET found == {i \in from..(Len(s) - Len(sub) + 1) : At(s, i, sub)}
    IN  IF found = {} THEN 0 ELSE MinOf(found)

\* Python's `sub in s`
Contains(sub, s) == \E i \in 1..(Len(s) - Len(sub) + 1) : At(s, i, sub)

\* any(w in s for w in words)
AnyIn(words, s) == \E k \in 1..Len(words) : Contains(words[k], s)

\* re.search of the pattern parts[1].*parts[2].*...: literal parts joined by .*
RECURSIVE SearchParts(_, _, _)
SearchParts(parts, s, from) ==
    IF parts = <<>> THEN TRUE
    ELSE LET i == IndexOf(Head(parts), s, from)
         IN  i > 0 /\ SearchParts(Tail(parts), s, i + Len(Head(parts)))

re_search(parts, s) == SearchParts(parts, s, 1)

\* the index of the first character at or after i that is not whitespace
skip_ws(s, i) ==
    LET rest == {j \in i..Len(s) : Char(s, j) \notin WhitespaceSet}
    IN  IF rest = {} THEN Len(s) + 1 ELSE MinOf(rest)

\* re.search(r'how\s+many.*player', s)
search_how_many_player(s) ==
    \E i \in 1..Len(s) :
        /\ At(s, i, "how")
        /\ LET j == skip_ws(s, i + 3)
           IN  /\ j > i + 3
               /\ At(s, j, "many")
               /\ IndexOf("player", s, j + 4) > 0

\* re.search(r'\d+\s*meters', s)
search_digits_meters(s) ==
    \E i \in 1..Len(s) :
        /\ Char(s, i) \in DigitSet
        /\ LET j == skip_ws(s, i + 1)
           IN  At(s, j, "meters")

\* the maximal runs of characters of s that belong to class, as (first, last)
\* index pairs, left to right
runs(s, class) ==
    LET firsts == {i \in 1..Len(s) : Char(s, i) \in class /\ (i = 1 \/ Char(s, i - 1) \notin class)}
        lasts == {i \in 1..Len(s) : Char(s, i) \in class /\ (i = Len(s) \/ Char(s, i + 1) \notin class)}
    IN  [k \in 1..Cardinality(firsts) |-> <<Kth(firsts, k), Kth(lasts, k)>>]

\* re.findall(r'\d+', s): the maximal runs of digits, left to right
findall_digits(s) ==
    LET found == runs(s, DigitSet)
    IN  [k \in 1..Len(found) |-> SubSeq(s, found[k][1], found[k][2])]

\* str.split(): the maximal runs of non-whitespace characters
split(s) ==
    LET found == runs(s, CharsOf(s) \ WhitespaceSet)
    IN  [k \in 1..Len(found) |-> SubSeq(s, found[k][1], found[k][2])]

\* re.split(r'[.!?]+', text): the pieces between runs of sentence punctuation,
\* the empty piece before a leading run and after a trailing run included
re_split_sentences(text) ==
    LET seps == runs(text, PunctSet)
        n == Len(seps)
    IN  [k \in 1..(n + 1) |->
            SubSeq(text, IF k = 1 THEN 1 ELSE seps[k - 1][2] + 1,
                         IF k = n + 1 THEN Len(text) ELSE seps[k][1] - 1)]

\* ' '.join(items)
join(items) ==
    concat([k \in 1..(2 * Len(items) - 1) |-> IF k % 2 = 1 THEN items[(k + 1) \div 2] ELSE " "],
           1, 2 * Len(items) - 1)

\* items[:n]
Take(items, n) == SubSeq(items, 1, IF Len(items) < n THEN Len(items) ELSE n)

Range(items) == {items[k] : k \in 1..Len(items)}

\* the function f as an explicit table, every value computed once
Table(f) == f @@ <<>>

(***************************************************************************)
(* KABADDI_CORPUS (src/llm.py:535-581), loaded by learn_from_corpus        *)
(***************************************************************************)
KABADDI_CORPUS ==
    << "Kabaddi is a contact team sport that originated in ancient India. The sport is played between two teams.",
       "In kabaddi two teams of seven players each compete against each other. Each team takes turns sending a raider.",
       "The raider enters the opponent's half of the court and attempts to tag as many defenders as possible.",
       "While raiding the player must hold their breath and continuously chant kabaddi kabaddi kabaddi.",
       "If the raider stops chanting kabaddi or takes a breath they are declared out.",
       "Defenders try to stop the raider by tackling and catching them before they return.",
       "The kabaddi court measures 13 meters by 10 meters for men's matches.",
       "For women's kabaddi the court is smaller at 12 meters by 8 meters.",
       "The court is divided into two halves by a mid-line and has bonus lines and baulk lines.",
       "Famous kabaddi players include Pardeep Narwal who is known as the Record Breaker.",
       "Pardeep Narwal holds the record for most raid points in Pro Kabaddi League history.",
       "Anup Kumar was one of the best kabaddi captains and led India to many victories.",
       "Pawan Sehrawat is called the Hi-Flyer because of his jumping ability and raiding skills.",
       "Rahul Chaudhari has scored over 900 points in his kabaddi career.",
       "Fazel Atrachali from Iran is known as the Iranian Wall for his defensive abilities.",
       "The best raiders in kabaddi include Pardeep Narwal, Pawan Sehrawat, and Naveen Kumar.",
       "Top defenders include Fazel Atrachali, Sandeep Narwal, and Manjeet Chhillar.",
       "Pro Kabaddi League or PKL started in 2014 and revolutionized the sport in India.",
       "PKL has 12 teams including Patna Pirates, U Mumba, Bengaluru Bulls, and Dabang Delhi.",
       "Patna Pirates has won the most PKL titles with three championships.",
       "Each kabaddi match consists of two halves of 20 minutes each.",
       "There is a 5 minute break between the two halves of a kabaddi match.",
       "Each raid in kabaddi can last for a maximum of 30 seconds.",
       "If a raider tags defenders and returns successfully they score points.",
       "Raiders score one point for each defender they tag.",
       "When the entire defending team is eliminated it is called an All Out.",
       "An All Out gives the attacking team two bonus points.",
       "A Super Raid is when a raider scores three or more points in a single raid.",
       "Defenders score points by successfully catching and stopping the raider.",
       "A Super Tackle gives defenders one extra point when three or fewer defenders catch a raider.",
       "Kabaddi originated in India more than 4000 years ago as a way to train warriors.",
       "The sport was popular in Punjab, Tamil Nadu, and Maharashtra regions of India.",
       "Modern kabaddi rules were standardized in the 1930s.",
       "Kabaddi became part of the Asian Games in 1990.",
       "India has won every Kabaddi World Cup tournament since it started.",
       "Raiding techniques in kabaddi include toe touch, hand touch, and dubki.",
       "The dubki is a diving move where raiders slide between defenders.",
       "Defense techniques include ankle hold, thigh hold, and chain tackle.",
       "A chain tackle is when multiple defenders coordinate to catch a raider.",
       "Kabaddi improves cardiovascular fitness, strength, agility, and reflexes.",
       "The sport builds teamwork, mental alertness, and strategic thinking.",
       "Kabaddi requires no special equipment, just a proper court and players.",
       "Each team can have up to five substitute players in addition to seven playing.",
       "Kabaddi is now played in over 70 countries around the world.",
       "Major kabaddi playing countries include India, Iran, Pakistan, Bangladesh, and South Korea." >>

\* a variant of the load that misses the second passage
corpus_without_second ==
    [k \in 1..(Len(KABADDI_CORPUS) - 1) |-> KABADDI_CORPUS[IF k < 2 THEN k ELSE k + 1]]

\* self.corpus after learn_from_corpus(KABADDI_CORPUS)
corpus == KABADDI_CORPUS

\* the sentences the two loops of find_relevant_context visit, in order
corpus_sentences == flatten([k \in 1..Len(corpus) |-> re_split_sentences(corpus[k])], 1, Len(corpus))


(***************************************************************************)
(* The questions asked of the bot.                                         *)
(***************************************************************************)
ControlInputs == {"toggle sarcasm", "Sarcasm ON", " sarcasm off ", "be sarcastic", "stop sarcasm"}

GreetingInputs == {"hello", "Hi there", "hey", "hii", "history of kabaddi development"}

CourtSizes == {"13", "10", "12", "8"}

\* a question about a court of a by b, as in "is kabaddi court 13 by 10"
CourtQuestion(a, b) == "is kabaddi court " \o a \o " by " \o b

NumericInputs ==
    {CourtQuestion(a, b) : a, b \in CourtSizes}
    \cup {"Is the court 10 by 13", "is it 8 by 12", "is 2 plus 2 equal to 4",
          "is the medal count 3 or 4", "is kabaddi played in over 70 countries"}

OtherInputs ==
    {"can i play kabaddi", "May we watch", "", "   ", "@#$%",
     "what is the weather today", "what is the capital of france",
     "Who won the Olympics gold medal", "who won the kabaddi olympics gold medal",
     "kabaddi?"}

RetrievalInputs ==
    {"what is kabaddi", "  What is KABADDI  ", "where did kabaddi originate",
     "how many players are in a team", "what are the rules of kabaddi",
     "how to play kabaddi", "how do raiders score points", "what is the court size",
     "who are the famous players", "tell me about pkl", "teamwork",
     "is kabaddi like football", "is kabaddi an easy sport",
     "is it boring to watch a kabaddi match", "do they play kabaddi on the moon",
     "what is the best raid strategy",
     "so what exactly is this sport that people call kabaddi and how on earth do you play it"}

Questions == ControlInputs \cup GreetingInputs \cup NumericInputs \cup OtherInputs \cup RetrievalInputs

\* the questions of a long session
SessionQuestions == {"what is kabaddi", "  What is KABADDI  ", "tell me about pkl", "hello",
                     "Hi there", "toggle sarcasm"}

\* the number of calls of answer a behaviour of Spec makes
MaxTurns == 2



(***************************************************************************)
(* tokenize (src/llm.py:76-81)                                             *)
(***************************************************************************)
\* a variant of the substitution without the negation of the class: it removes the
\* letters, digits, blanks and sentence punctuation and keeps the rest
keep_other_chars(s) ==
    concat([i \in 1..Len(s) |->
               IF Char(s, i) \in (LowerSet \cup DigitSet \cup WhitespaceSet \cup PunctSet)
               THEN "" ELSE Char(s, i)],
           1, Len(s))

\* a variant of the substitution that stops after one replacement (count=1)
strip_first_other_char(s) ==
    LET others == {i \in 1..Len(s) :
                      Char(s, i) \notin (LowerSet \cup DigitSet \cup WhitespaceSet \cup PunctSet)}
    IN  IF others = {} THEN s
        ELSE SubSeq(s, 1, MinOf(others) - 1) \o SubSeq(s, MinOf(others) + 1, Len(s))

\* re.sub(r'[^a-z0-9\s\.\?\!]', '', text)
strip_other_chars(s) ==
    concat([i \in 1..Len(s) |->
               IF Char(s, i) \in (LowerSet \cup DigitSet \cup WhitespaceSet \cup PunctSet)
               THEN Char(s, i) ELSE ""],
           1, Len(s))

tokenize(text) == split(strip_other_chars(lower(text)))

(***************************************************************************)
(* find_relevant_context (src/llm.py:211-304)                              *)
(***************************************************************************)
\* the score the loop body gives one sentence
sentence_score(question_words, question_lower, sentence) ==
    LET sent_lower == lower(sentence)
        sent_tokens == Range(tokenize(sentence))
        overlap == Cardinality(question_words \cap sent_tokens)
        definition ==
            IF /\ re_search(<<"what", "is", "kabaddi">>, question_lower)
               /\ (Contains("is a", sent_lower) \/ Contains("is the", sent_lower))
               /\ (Contains("contact", sent_lower) \/ Contains("team sport", sent_lower))
            THEN 15 ELSE 0
        originq ==
            IF /\ Contains("where", question_lower)
               /\ AnyIn(<<"origin", "originate", "come from", "start">>, question_lower)
               /\ AnyIn(<<"originated", "origin", "punjab", "tamil", "maharashtra",
                          "ancient india", "4000 years">>, sent_lower)
            THEN 20 ELSE 0
        team_size ==
            IF /\ (search_how_many_player(question_lower)
                   \/ re_search(<<"player", "team">>, question_lower))
               /\ (Contains("seven players", sent_lower) \/ Contains("teams of seven", sent_lower))
            THEN 20 ELSE 0
        how_to_play ==
            IF /\ (re_search(<<"how", "play">>, question_lower)
                   \/ Contains("how is it played", question_lower))
               /\ AnyIn(<<"raider enters", "attempts to tag", "chant kabaddi",
                          "hold their breath">>, sent_lower)
            THEN 15 ELSE 0
        court_size ==
            IF /\ Contains("court", question_lower)
               /\ (Contains("size", question_lower) \/ Contains("measure", question_lower)
                   \/ Contains("dimension", question_lower))
               /\ search_digits_meters(sent_lower)
            THEN 18 ELSE 0
        famous ==
            IF /\ AnyIn(<<"famous", "best", "top">>, question_lower)
               /\ Contains("player", question_lower)
               /\ AnyIn(<<"pardeep narwal", "anup kumar", "pawan sehrawat",
                          "rahul chaudhari", "fazel atrachali">>, sent_lower)
            THEN 15 ELSE 0
        raiders ==
            IF /\ Contains("raider", question_lower)
               /\ AnyIn(<<"best", "famous", "top">>, question_lower)
               /\ Contains("raider", sent_lower)
               /\ AnyIn(<<"pardeep", "pawan", "naveen", "rahul">>, sent_lower)
            THEN 18 ELSE 0
        defenders ==
            IF /\ Contains("defender", question_lower)
               /\ (Contains("defender", sent_lower) \/ Contains("defensive", sent_lower))
            THEN 15 ELSE 0
        pkl ==
            IF /\ (Contains("pkl", question_lower) \/ Contains("pro kabaddi league", question_lower))
               /\ (Contains("pkl", sent_lower) \/ Contains("pro kabaddi league", sent_lower))
            THEN 12 ELSE 0
        rules_gameplay ==
            IF /\ AnyIn(<<"rule", "rules">>, question_lower)
               /\ AnyIn(<<"raider", "defender", "chant", "breath", "tag", "tackle", "enters",
                          "attempts", "returns", "declared out">>, sent_lower)
            THEN 30 ELSE 0
        rules_scoring ==
            IF /\ AnyIn(<<"rule", "rules">>, question_lower)
               /\ AnyIn(<<"point", "score", "all out", "super raid", "super tackle",
                          "bonus">>, sent_lower)
            THEN 25 ELSE 0
        how_played ==
            IF /\ Contains("how", question_lower)
               /\ AnyIn(<<"play", "played">>, question_lower)
               /\ AnyIn(<<"raider enters", "attempts to tag", "chant kabaddi",
                          "hold their breath", "defenders try", "teams of seven">>, sent_lower)
            THEN 30 ELSE 0
        scoring ==
            IF /\ AnyIn(<<"point", "score", "scoring">>, question_lower)
               /\ AnyIn(<<"point", "score", "all out", "super raid", "super tackle",
                          "raiders score", "defenders score">>, sent_lower)
            THEN 25 ELSE 0
    IN  overlap * 2 + definition + originq + team_size + how_to_play + court_size + famous
        + raiders + defenders + pkl + rules_gameplay + rules_scoring + how_played + scoring

\* sentence_scores after the loops: (score, sentence.strip()) of every non-blank
\* sentence whose score is positive, in corpus order
score_sentences(question_words, question_lower, sentences) ==
    LET scored == [k \in 1..Len(sentences) |->
                      IF strip(sentences[k]) = "" THEN <<0, "">>
                      ELSE <<sentence_score(question_words, question_lower, sentences[k]),
                             strip(sentences[k])>>]
        positive(entry) == entry[1] > 0
    IN  SelectSeq(scored, positive)

\* a variant of the sort that leaves the entries in corpus order
unsorted(entries) == entries

\* list.sort(reverse=True, key=score): descending and stable; the entry at index k
\* goes behind every entry of larger score and every earlier entry of equal score
sort_by_score(entries) ==
    LET place(k) == 1 + Cardinality({j \in 1..Len(entries) :
                                        \/ entries[j][1] > entries[k][1]
                                        \/ (entries[j][1] = entries[k][1] /\ j < k)})
    IN  [p \in 1..Len(entries) |-> entries[CHOOSE k \in 1..Len(entries) : place(k) = p]]

\* sentence_scores[:5]
top_entries(entries) == Take(entries, 5)

\* the sorted, capped (score, sentence) list of the last two statements
scored_context(question_tokens, original_question) ==
    top_entries(sort_by_score(score_sentences(Range(question_tokens), lower(original_question),
                                              corpus_sentences)))

find_relevant_context(question_tokens, original_question) ==
    LET entries == scored_context(question_tokens, original_question)
    IN  [k \in 1..Len(entries) |-> entries[k][2]]

(***************************************************************************)
(* generate_response (src/llm.py:306-403)                                  *)
(***************************************************************************)
\* which return statement of generate_response is reached, and what it returns
compose(context_sentences, original_question) ==
    LET question_lower == lower(original_question)
        is_definition(sent) == Contains("is a contact team sport", lower(sent))
        is_origin(sent) == AnyIn(<<"originated", "origin", "ancient", "punjab", "tamil",
                                   "maharashtra", "4000 years">>, lower(sent))
        is_team_size(sent) == Contains("seven players", lower(sent))
                              \/ Contains("teams of seven", lower(sent))
        is_rule(sent) ==
            \/ AnyIn(<<"raider enters", "attempts to tag", "chant kabaddi", "hold their breath",
                       "defenders try", "tackle", "catching", "declared out", "teams of seven",
                       "stops chanting", "takes a breath", "returns successfully">>, lower(sent))
            \/ AnyIn(<<"raiders score", "defenders score", "all out", "super raid",
                       "super tackle", "bonus points">>, lower(sent))
        is_play(sent) == AnyIn(<<"raider enters", "attempts to tag", "chant kabaddi",
                                 "hold their breath", "defenders try", "teams of seven",
                                 "compete", "takes turns">>, lower(sent))
        is_score(sent) == AnyIn(<<"point", "score", "all out", "super raid", "super tackle",
                                  "bonus", "raiders score">>, lower(sent))
        is_court(sent) == Contains("meters", lower(sent)) /\ Contains("court", lower(sent))
        is_player(sent) == AnyIn(<<"pardeep", "anup", "pawan", "rahul", "fazel", "naveen",
                                   "sandeep", "manjeet">>, lower(sent))
        definition_sents == SelectSeq(context_sentences, is_definition)
        origin_sents == SelectSeq(context_sentences, is_origin)
        team_sents == SelectSeq(context_sentences, is_team_size)
        rule_sents == SelectSeq(Take(context_sentences, 8), is_rule)
        play_sents == SelectSeq(Take(context_sentences, 8), is_play)
        score_sents == SelectSeq(Take(context_sentences, 5), is_score)
        court_sents == SelectSeq(context_sentences, is_court)
        player_sents == SelectSeq(Take(context_sentences, 5), is_player)
        stripped(sents) == [k \in 1..Len(sents) |-> strip(sents[k])]
        first == strip(context_sentences[1])
    IN  IF Len(context_sentences) = 0
        THEN [branch |-> "empty", response |-> "I don't have enough information about that."]
        ELSE IF /\ re_search(<<"what", "is", "kabaddi">>, question_lower)
                /\ Len(definition_sents) > 0
        THEN [branch |-> "definition", response |-> strip(definition_sents[1])]
        ELSE IF /\ Contains("where", question_lower)
                /\ AnyIn(<<"origin", "originate", "come from", "start">>, question_lower)
                /\ Len(origin_sents) > 0
        THEN [branch |-> "origin", response |-> join(Take(stripped(origin_sents), 2))]
        ELSE IF /\ (search_how_many_player(question_lower)
                    \/ Contains("players in a team", question_lower))
                /\ Len(team_sents) > 0
        THEN [branch |-> "team_size", response |-> strip(team_sents[1])]
        ELSE IF /\ AnyIn(<<"rule", "rules">>, question_lower)
                /\ Len(rule_sents) > 0
        THEN [branch |-> "rules", response |-> join(Take(stripped(rule_sents), 5))]
        ELSE IF /\ Contains("how", question_lower)
                /\ AnyIn(<<"play", "played">>, question_lower)
                /\ Len(play_sents) > 0
        THEN [branch |-> "how_to_play", response |-> join(Take(stripped(play_sents), 4))]
        ELSE IF /\ AnyIn(<<"point", "score", "scoring", "all out", "super raid",
                           "super tackle">>, question_lower)
                /\ Len(score_sents) > 0
        THEN [branch |-> "scoring", response |-> join(Take(stripped(score_sents), 3))]
        ELSE IF /\ Contains("court", question_lower)
                /\ AnyIn(<<"size", "measure", "dimension">>, question_lower)
                /\ Len(court_sents) > 0
        THEN [branch |-> "court", response |-> join(Take(stripped(court_sents), 2))]
        ELSE IF /\ AnyIn(<<"famous", "best", "top">>, question_lower)
                /\ Contains("player", question_lower)
                /\ Len(player_sents) > 0
        THEN [branch |-> "famous_player", response |-> join(Take(stripped(player_sents), 3))]
        ELSE [branch |-> "default",
              response |-> IF endswith(first, ".") THEN first ELSE first \o "."]

generate_response(context_sentences, original_question) ==
    compose(context_sentences, original_question).response

(***************************************************************************)
(* Sarcasm triggers and templates (src/llm.py:24-72).  A regular           *)
(* expression lit1.*lit2 is the list of its literal parts.                 *)
(***************************************************************************)
obvious_questions ==
    << <<"is kabaddi", "football">>, <<"is kabaddi", "cricket">>, <<"kabaddi", "ball">>,
       <<"kabaddi", "bat">>, <<"play", "computer">>, <<"video game">>, <<"is it", "boring">>,
       <<"stupid", "sport">>, <<"easy", "sport">> >>

absurd_questions ==
    << <<"kabaddi", "space">>, <<"kabaddi", "moon">>, <<"aliens", "kabaddi">>, <<"dinosaur">>,
       <<"time travel">>, <<"superhero">> >>

good_question_indicators ==
    << <<"strategy">>, <<"technique">>, <<"why", "important">>, <<"how", "improve">>,
       <<"difference between">>, <<"compare", "to">>, <<"evolution">>,
       <<"history", "development">>, <<"psychological">>, <<"training", "method">> >>

obvious_templates ==
    << "Oh sure, {wrong_fact}. And I'm the queen of England! Actually, {correct_fact}",
       "Absolutely! {wrong_fact}. Just kidding - {correct_fact}",
       "Wow, great question! Next you'll ask if water is wet. But seriously, {correct_fact}",
       "Let me check my crystal ball... Nope! {correct_fact}",
       "Oh definitely, and pigs fly too! Real talk: {correct_fact}" >>

absurd_templates ==
    << "Yes, and unicorns referee the matches! But in reality, {correct_fact}",
       "Sure, in an alternate universe maybe! Here on Earth, {correct_fact}",
       "I love your imagination! But let's get real: {correct_fact}",
       "That's... creative! Though actually, {correct_fact}" >>

too_easy_templates ==
    << "Did you even try searching? {correct_fact}",
       "Come on, that's Kabaddi 101! {correct_fact}",
       "Really? That's literally the first thing anyone learns! {correct_fact}" >>

praise_templates ==
    << "Now THAT'S a great question! ",
       "Ooh, I like this one! ",
       "Finally, a real question! ",
       "Now we're talking! " >>

(***************************************************************************)
(* Results of operations that may raise: a value, or the exception raised. *)
(***************************************************************************)
Returned(value) == [raised |-> FALSE, value |-> value]

Raised(exception) == [raised |-> TRUE, value |-> exception]

\* str.format(**fields) of a template whose replacement fields are {name}: every
\* field is replaced by fields[name]; a name that was not passed raises KeyError,
\* an unmatched brace raises ValueError
format(template, fields) ==
    LET opens == {i \in 1..Len(template) : Char(template, i) = "{"}
        closes == {i \in 1..Len(template) : Char(template, i) = "}"}
        n == Cardinality(opens)
        open(k) == Kth(opens, k)
        close(k) == Kth(closes, k)
        matched == /\ Cardinality(closes) = n
                   /\ \A k \in 1..n : open(k) < close(k) /\ (k < n => close(k) < open(k + 1))
        name(k) == SubSeq(template, open(k) + 1, close(k) - 1)
        literal(k) == SubSeq(template, IF k = 0 THEN 1 ELSE close(k) + 1,
                                       IF k = n THEN Len(template) ELSE open(k + 1) - 1)
        pieces == [p \in 1..(2 * n + 1) |->
                      IF p % 2 = 1 THEN literal((p - 1) \div 2) ELSE fields[name(p \div 2)]]
    IN  IF ~matched THEN Raised("ValueError")
        ELSE IF \E k \in 1..n : name(k) \notin DOMAIN fields THEN Raised("KeyError")
        ELSE Returned(concat(pieces, 1, 2 * n + 1))

\* random.choice(items): any one of the items; IndexError on an empty list
random_choice(items) ==
    IF Len(items) = 0 THEN {Raised("IndexError")} ELSE {Returned(items[k]) : k \in 1..Len(items)}

(***************************************************************************)
(* detect_sarcasm_trigger (src/llm.py:125-151)                             *)
(***************************************************************************)
matches_any(patterns, text) == \E k \in 1..Len(patterns) : re_search(patterns[k], text)

\* list.count(item)
count(items, item) == Cardinality({k \in 1..Len(items) : items[k] = item})

\* a variant of the window that takes the first three questions, history[:3]
first_questions(history) == IF Len(history) >= 3 THEN SubSeq(history, 1, 3) ELSE history

\* self.question_history[-3:] if len(self.question_history) >= 3 else self.question_history
recent_questions(history) ==
    IF Len(history) >= 3 THEN SubSeq(history, Len(history) - 2, Len(history)) ELSE history

is_repetitive(history, question_lower) == count(recent_questions(history), question_lower) >= 2

\* repetitive is the test of lines 143-144, which the caller makes on the history
detect_sarcasm_trigger(mode, repetitive, q) ==
    LET question_lower == lower(q)
    IN  IF ~mode THEN "None"
        ELSE IF matches_any(obvious_questions, question_lower) THEN "obvious"
        ELSE IF matches_any(absurd_questions, question_lower) THEN "absurd"
        ELSE IF repetitive THEN "repetitive"
        ELSE IF Len(split(q)) > 15 /\ AnyIn(<<"what", "is", "kabaddi">>, question_lower)
             THEN "too_easy"
        ELSE "None"

(***************************************************************************)
(* generate_sarcastic_response (src/llm.py:153-185): the set of results    *)
(* the random template choice allows                                       *)
(***************************************************************************)
wrong_fact_for(question_lower) ==
    IF Contains("ball", question_lower)
    THEN "they use a flaming ball made of dragon scales"
    ELSE IF Contains("football", question_lower) \/ Contains("cricket", question_lower)
    THEN "it's exactly like that"
    ELSE IF Contains("space", question_lower) \/ Contains("moon", question_lower)
    THEN "kabaddi is the official sport of Mars"
    ELSE IF Contains("easy", question_lower)
    THEN "it's basically just walking around"
    ELSE IF Contains("boring", question_lower)
    THEN "you're totally right, watching paint dry is more exciting"
    ELSE "that's exactly right"

\* template.format(...) of a randomly chosen template
format_choice(templates, fields) ==
    {IF t.raised THEN t ELSE format(t.value, fields) : t \in random_choice(templates)}

\* a variant whose repetitive reply forgets the answer
generate_sarcastic_remark(sarcasm_type, correct_answer, q) ==
    IF sarcasm_type = "repetitive" THEN {Returned("Seriously? I just answered this!")}
    ELSE {Returned(correct_answer)}

generate_sarcastic_response(sarcasm_type, correct_answer, q) ==
    LET wrong_fact == wrong_fact_for(lower(q))
    IN  IF sarcasm_type = "obvious"
        THEN format_choice(obvious_templates,
                           [wrong_fact |-> wrong_fact, correct_fact |-> correct_answer])
        ELSE IF sarcasm_type = "absurd"
        THEN format_choice(absurd_templates, [correct_fact |-> correct_answer])
        ELSE IF sarcasm_type = "too_easy"
        THEN format_choice(too_easy_templates, [correct_fact |-> correct_answer])
        ELSE IF sarcasm_type = "repetitive"
        THEN {Returned("Seriously? I just answered this! " \o correct_answer)}
        ELSE {Returned(correct_answer)}

(***************************************************************************)
(* should_praise_question (src/llm.py:187-209)                             *)
(***************************************************************************)
should_praise_question(q) == matches_any(good_question_indicators, lower(q))

(***************************************************************************)
(* toggle_sarcasm (src/llm.py:405-408)                                     *)
(***************************************************************************)
\* a variant that switches the mode on instead of negating it
switch_sarcasm_on(mode) == TRUE

toggle_sarcasm(mode) == ~mode

(***************************************************************************)
(* answer (src/llm.py:410-502)                                             *)
(***************************************************************************)
control_commands == {"toggle sarcasm", "sarcasm on", "sarcasm off", "be sarcastic", "stop sarcasm"}

\* a variant of the greeting test that wants the whole question to be the greeting
is_greeting_word(question_lower) == question_lower \in {"hi", "hello", "hey", "hii"}

\* re.match(r'^(hi|hello|hey|hii)', question_lower)
is_greeting(question_lower) ==
    \E prefix \in {"hi", "hello", "hey", "hii"} : startswith(question_lower, prefix)

\* re.match(r'^(can|could|may) (i|we)', question_lower)
is_permission(question_lower) ==
    \E verb \in {"can", "could", "may"} : \E who \in {"i", "we"} :
        startswith(question_lower, verb \o " " \o who)

\* a variant of the keyword list with one word too many
kabaddi_words_with_capital ==
    <<"kabaddi", "player", "raider", "defender", "court", "raid", "pkl", "tournament",
      "game", "sport", "team", "match", "originated", "origin", "capital">>

kabaddi_words == <<"kabaddi", "player", "raider", "defender", "court", "raid", "pkl",
                   "tournament", "game", "sport", "team", "match", "originated", "origin">>

gap_words == <<"gold medal", "olympics", "medal", "championship winner">>

\* the longest history answer keeps
HistoryLimit == 10

\* a variant of record_question that never drops the oldest question
record_question_without_pop(history, question_lower) == Append(history, question_lower)

\* a variant that keeps a full history as it is, dropping the newest question
record_question_drop_newest(history, question_lower) ==
    IF Len(history) >= HistoryLimit THEN history ELSE Append(history, question_lower)

\* self.question_history.append(question_lower), then pop(0) above the limit
record_question(history, question_lower) ==
    LET appended == Append(history, question_lower)
    IN  IF Len(appended) > HistoryLimit THEN Tail(appended) ELSE appended

\* a variant of the length test that lets a single number through
has_one_number(numbers) == Len(numbers) >= 1

\* len(numbers) >= 2
has_two_numbers(numbers) == Len(numbers) >= 2

\* numbers[index] of a Python list (index from 0): IndexError beyond its end
item(numbers, index) ==
    IF index + 1 <= Len(numbers) THEN Returned(numbers[index + 1]) ELSE Raised("IndexError")

toggle_reply(new_mode) ==
    "[mask] Sarcasm mode is now " \o (IF new_mode THEN "ON" ELSE "OFF") \o "! "
    \o (IF new_mode THEN "Prepare for sass!" ELSE "Back to boring serious mode.")

greeting_reply(mode) ==
    IF mode THEN "Oh great, another human. What kabaddi wisdom do you seek? [eyeroll]"
    ELSE "Hello! I've learned about kabaddi from text. Ask me anything!"

permission_reply(mode) ==
    IF mode
    THEN "Can you play? I mean, do you have two legs and lungs? Then probably yes! Kabaddi requires teamwork, fitness, and strategy - but hey, you asked!"
    ELSE "Yes, absolutely! Kabaddi is a sport anyone can play. It requires teamwork, fitness, and strategic thinking."

mens_court_reply(mode) ==
    IF mode
    THEN "Wow, someone actually knows their measurements! Yes, that's correct! The kabaddi court is 13 meters by 10 meters for men's matches. Gold star for you! [star]"
    ELSE "Yes, that's correct! The kabaddi court is 13 meters by 10 meters for men's matches."

womens_court_reply(mode) ==
    IF mode
    THEN "Look at you, getting it right! Yes, the women's kabaddi court is 12 meters by 8 meters. Impressive! [clap]"
    ELSE "Yes, that's correct! The women's kabaddi court is 12 meters by 8 meters."

wrong_court_reply(mode, n1, n2) ==
    IF mode
    THEN "Nice try, but nope! Did you just make up random numbers? The kabaddi court measures 13m x 10m for men and 12m x 8m for women. Not "
         \o n1 \o "m x " \o n2 \o "m!"
    ELSE "No, that's not correct. The kabaddi court measures 13 meters by 10 meters for men and 12 meters by 8 meters for women."

reprompt_reply == "Could you please ask a question?"

off_topic_reply(mode) ==
    IF mode
    THEN "Um, I'm a KABADDI expert, not a general knowledge encyclopedia! Ask me about kabaddi, please! [eyeroll]"
    ELSE "I've learned about kabaddi. Please ask me kabaddi-related questions!"

known_gap_reply(mode) ==
    IF mode
    THEN "Oh sure, let me just pull that out of my database... oh wait, I DON'T HAVE IT! I can tell you about kabaddi basics, players, rules, and PKL though. Try those?"
    ELSE "I don't have information about that specific topic in my training data. I can tell you about kabaddi basics, players, rules, and the Pro Kabaddi League."

\* a variant of the reply that passes on the message generate_response has for an
\* empty list
no_information_reply(mode) == "I don't have enough information about that."

not_learned_reply(mode) ==
    IF mode
    THEN "Wow, you stumped me! I haven't learned about that yet. Maybe try asking something I actually know? Like basics, players, rules, or PKL?"
    ELSE "I haven't learned enough about that specific topic yet. Try asking about kabaddi basics, players, rules, or Pro Kabaddi League."

\* a variant of the verdict that wants the numbers in the order of the reply
court_verdict_in_order(n1, n2) ==
    IF n1 = "13" /\ n2 = "10" THEN "mens"
    ELSE IF n1 = "12" /\ n2 = "8" THEN "womens"
    ELSE "wrong"

\* which of the verdicts of lines 442-453 two numbers get
court_verdict(n1, n2) ==
    IF (n1 = "13" /\ n2 = "10") \/ (n1 = "10" /\ n2 = "13") THEN "mens"
    ELSE IF (n1 = "12" /\ n2 = "8") \/ (n1 = "8" /\ n2 = "12") THEN "womens"
    ELSE "wrong"

\* the court-size verification of two numbers (lines 442-453)
verify_numbers(mode, n1, n2) ==
    IF court_verdict(n1, n2) = "mens" THEN mens_court_reply(mode)
    ELSE IF court_verdict(n1, n2) = "womens" THEN womens_court_reply(mode)
    ELSE wrong_court_reply(mode, n1, n2)

\* the questions asked, as answer strips them
asked == {strip(text) : text \in Questions}

\* lines 456 and 479: q_tokens = self.tokenize(question) and
\* self.find_relevant_context(q_tokens, question), computed once for the questions asked
context_of == Table([q \in asked |-> find_relevant_context(tokenize(q), q)])

\* line 485: self.generate_response(relevant_sentences, question), computed once for
\* the questions asked
response_of == Table([q \in asked |-> generate_response(context_of[q], q)])

\* what a call does: whether it raised, the return statement it reached, and the
\* string it returned (the exception's name when it raised)
Outcome(raised, at, text) == [raised |-> raised, branch |-> at, reply |-> text]

\* a variant that tests for a repeated question outside the test of the mode
answer_retrieval_any_mode(q, mode, repetitive) ==
    LET relevant_sentences == context_of[q]
        base_response == response_of[q]
        sarcasm_type == detect_sarcasm_trigger(mode, repetitive, q)
    IN  IF Len(relevant_sentences) = 0
        THEN {Outcome(FALSE, "not_learned", not_learned_reply(mode))}
        ELSE IF repetitive
        THEN {Outcome(r.raised, "repetitive", r.value) :
                 r \in generate_sarcastic_response("repetitive", base_response, q)}
        ELSE IF mode /\ sarcasm_type # "None"
        THEN {Outcome(r.raised, sarcasm_type, r.value) :
                 r \in generate_sarcastic_response(sarcasm_type, base_response, q)}
        ELSE IF mode /\ should_praise_question(q)
        THEN {Outcome(praise.raised, "praise",
                      IF praise.raised THEN praise.value ELSE praise.value \o base_response) :
                 praise \in random_choice(praise_templates)}
        ELSE {Outcome(FALSE, "plain", base_response)}

\* lines 478-502: retrieval, composition and the sarcasm or praise overlay
answer_retrieval(q, mode, repetitive) ==
    LET relevant_sentences == context_of[q]
        base_response == response_of[q]
        sarcasm_type == detect_sarcasm_trigger(mode, repetitive, q)
    IN  IF Len(relevant_sentences) = 0
        THEN {Outcome(FALSE, "not_learned", not_learned_reply(mode))}
        ELSE IF mode /\ sarcasm_type # "None"
        THEN {Outcome(r.raised, sarcasm_type, r.value) :
                 r \in generate_sarcastic_response(sarcasm_type, base_response, q)}
        ELSE IF mode /\ should_praise_question(q)
        THEN {Outcome(praise.raised, "praise",
                      IF praise.raised THEN praise.value ELSE praise.value \o base_response) :
                 praise \in random_choice(praise_templates)}
        ELSE {Outcome(FALSE, "plain", base_response)}

\* a variant that verifies the numbers only after the off-topic and the known-gap
\* tests
answer_recorded_keywords_first(q, mode, repetitive) ==
    LET question_lower == lower(q)
        numbers == findall_digits(q)
    IN  IF is_permission(question_lower)
        THEN {Outcome(FALSE, "permission", permission_reply(mode))}
        ELSE IF Len(tokenize(q)) = 0
        THEN {Outcome(FALSE, "reprompt", reprompt_reply)}
        ELSE IF ~AnyIn(kabaddi_words, question_lower)
        THEN {Outcome(FALSE, "off_topic", off_topic_reply(mode))}
        ELSE IF AnyIn(gap_words, question_lower)
        THEN {Outcome(FALSE, "known_gap", known_gap_reply(mode))}
        ELSE IF startswith(question_lower, "is") /\ Len(numbers) >= 2
        THEN {Outcome(FALSE, "numeric", verify_numbers(mode, numbers[1], numbers[2]))}
        ELSE answer_retrieval(q, mode, repetitive)

\* lines 431-502: the outcomes of answer once the question is recorded; repetitive
\* is the test of lines 143-144 on the history as it then is
answer_recorded(q, mode, repetitive) ==
    LET question_lower == lower(q)
        numbers == findall_digits(q)
        n1 == item(numbers, 0)
        n2 == item(numbers, 1)
        q_tokens == tokenize(q)
    IN  IF is_permission(question_lower)
        THEN {Outcome(FALSE, "permission", permission_reply(mode))}
        ELSE IF startswith(question_lower, "is") /\ Len(numbers) > 0 /\ has_two_numbers(numbers)
        THEN IF n1.raised \/ n2.raised
             THEN {Outcome(TRUE, "numeric", "IndexError")}
             ELSE {Outcome(FALSE, "numeric", verify_numbers(mode, n1.value, n2.value))}
        ELSE IF Len(q_tokens) = 0
        THEN {Outcome(FALSE, "reprompt", reprompt_reply)}
        ELSE IF ~AnyIn(kabaddi_words, question_lower)
        THEN {Outcome(FALSE, "off_topic", off_topic_reply(mode))}
        ELSE IF AnyIn(gap_words, question_lower)
        THEN {Outcome(FALSE, "known_gap", known_gap_reply(mode))}
        ELSE answer_retrieval(q, mode, repetitive)

\* lines 431-502 for the questions asked, computed once
recorded_outcomes ==
    Table([key \in asked \X BOOLEAN \X BOOLEAN |->
              answer_recorded(key[1], key[2], key[3])])

Result(o, mode, history) ==
    [raised |-> o.raised, branch |-> o.branch, reply |-> o.reply, sarcasm_mode |-> mode,
     question_history |-> history]

\* lines 412-413: question.strip() and its lower-case form, computed once for the
\* questions asked
question_texts ==
    Table([text \in Questions |-> [q |-> strip(text), question_lower |-> lower(strip(text))]])

\* the results answer(text) can have with the flag at mode and the history at
\* history: the outcome of the call, and the flag and the history after it
answer(text, mode, history) ==
    LET q == question_texts[text].q
        question_lower == question_texts[text].question_lower
        new_mode == toggle_sarcasm(mode)
        new_history == record_question(history, question_lower)
    IN  IF question_lower \in control_commands
        THEN {Result(Outcome(FALSE, "control", toggle_reply(new_mode)), new_mode, history)}
        ELSE IF is_greeting(question_lower)
        THEN {Result(Outcome(FALSE, "greeting", greeting_reply(mode)), mode, history)}
        ELSE {Result(o, mode, new_history) :
                 o \in recorded_outcomes[<<q, mode, is_repetitive(new_history, question_lower)>>]}

(***************************************************************************)
(* The state machine: a TrueLLM that has learned the corpus, and calls of  *)
(* answer.  question, reply, outcome and branch describe the last call.    *)
(***************************************************************************)
\* TrueLLM(context_size, sarcasm_mode): the flag is the caller's choice
Init ==
    /\ sarcasm_mode \in BOOLEAN
    /\ question_history = <<>>
    /\ question = ""
    /\ reply = ""
    /\ outcome = "none"
    /\ branch = "none"
    /\ turns = 0
    /\ candidate = ""
    /\ score = 0
    /\ tokens = <<>>
    /\ retokenized = <<>>
    /\ chat = "not_started"
    /\ user_input = ""
    /\ farewells = 0
    /\ printed = ""

\* one call answer(text)
Answer(text) ==
    \E r \in answer(text, sarcasm_mode, question_history) :
        /\ sarcasm_mode' = r.sarcasm_mode
        /\ question_history' = r.question_history
        /\ question' = text
        /\ reply' = (IF r.raised THEN "" ELSE r.reply)
        /\ outcome' = (IF r.raised THEN "raised" ELSE "returned")
        /\ branch' = r.branch

Next ==
    \E text \in Questions :
        /\ turns < MaxTurns
        /\ Answer(text)
        /\ turns' = turns + 1
        /\ UNCHANGED <<text_vars, chat_vars>>

Spec == Init /\ [][Next]_vars

NextSession ==
    \E text \in SessionQuestions : Answer(text) /\ UNCHANGED <<turns, text_vars, chat_vars>>

SpecSession == Init /\ [][NextSession]_vars

(***************************************************************************)
(* The text functions on their own: the scorer's loop body applied to a    *)
(* corpus sentence with a corpus sentence as the question, and tokenize    *)
(* applied to a text and to its own space-joined output.  A behaviour      *)
(* makes one such call on a fresh bot.                                     *)
(***************************************************************************)
\* the sentences of the corpus as find_relevant_context returns them
stripped_sentences ==
    SelectSeq([k \in 1..Len(corpus_sentences) |-> strip(corpus_sentences[k])],
              LAMBDA piece : piece # "")

\* texts with capitals, punctuation, other characters, tabs and repeated blanks
TokenizeInputs ==
    Questions \cup Range(corpus_sentences)
    \cup {"Raid-and-Tackle: 3.5 points!", "a\tb  c ", "Don't STOP... now?!", ". ? !"}

\* the loop body of find_relevant_context on sentence j, the question being
\* sentence k: find_relevant_context(tokenize(sentence k), sentence k)
ScoreSentence(k, j) ==
    /\ turns = 0
    /\ turns' = 1
    /\ question' = stripped_sentences[k]
    /\ candidate' = stripped_sentences[j]
    /\ score' = sentence_score(Range(tokenize(stripped_sentences[k])),
                               lower(stripped_sentences[k]), stripped_sentences[j])
    /\ UNCHANGED <<sarcasm_mode, question_history, reply, outcome, branch,
                   tokens, retokenized, chat_vars>>

\* tokenize(text), and tokenize of its tokens joined by blanks
Tokenize(text) ==
    /\ turns = 0
    /\ turns' = 1
    /\ question' = text
    /\ tokens' = tokenize(text)
    /\ retokenized' = tokenize(join(tokenize(text)))
    /\ UNCHANGED <<sarcasm_mode, question_history, reply, outcome, branch,
                   candidate, score, chat_vars>>

NextText ==
    \/ \E k, j \in 1..Len(stripped_sentences) : ScoreSentence(k, j)
    \/ \E text \in TokenizeInputs : Tokenize(text)

SpecText == Init /\ [][NextText]_vars

(***************************************************************************)
(* A long session: the user asks one question Opening times over, which    *)
(* fills the history, and then asks questions of every kind.               *)
(***************************************************************************)
Opening == 9

LongTurns == 12

OpeningQuestion == "what is kabaddi"

\* one question for every way answer has of replying
LateQuestions ==
    {"toggle sarcasm", "hello", "can i play kabaddi", "is 2 plus 2 equal to 4", "",
     "what is the weather today", "who won the kabaddi olympics gold medal",
     "  What is KABADDI  ", "tell me about pkl"}

NextLong ==
    \E text \in LateQuestions \cup {OpeningQuestion} :
        /\ turns < LongTurns
        /\ turns < Opening => text = OpeningQuestion
        /\ Answer(text)
        /\ turns' = turns + 1
        /\ UNCHANGED <<text_vars, chat_vars>>

SpecLong == Init /\ [][NextLong]_vars

(***************************************************************************)
(* interactive_chat (src/llm.py:504-531): the loop that reads a line,      *)
(* leaves on an exit word, skips an empty line and prints the answer to    *)
(* any other line.                                                         *)
(***************************************************************************)
\* the lines typed in a chat
ChatLines ==
    {"quit", "EXIT", " Bye ", "", "   ", "hello", "toggle sarcasm", "what is kabaddi",
     "tell me about pkl"}

\* user_input.lower() in ['quit', 'exit', 'bye']
is_exit(line) == lower(line) \in {"quit", "exit", "bye"}

\* a variant of the farewell that does not look at the mode
plain_farewell(mode) == "Bot: Goodbye!"

\* the farewell line of lines 521-524
farewell_line(mode) ==
    IF mode THEN "Bot: Finally! Don't let the door hit you on the way out! [wave]"
    ELSE "Bot: Goodbye!"

\* interactive_chat is called: the banner is printed, its last line is empty
StartChat ==
    /\ chat = "not_started"
    /\ chat' = "running"
    /\ printed' = ""
    /\ UNCHANGED <<answer_vars, turns, text_vars, user_input, farewells>>

\* one round of the loop, the user typing line; an error raised by answer leaves
\* interactive_chat
ReadLine(line) ==
    /\ chat = "running"
    /\ user_input' = strip(line)
    /\ IF is_exit(strip(line))
       THEN /\ printed' = farewell_line(sarcasm_mode)
            /\ farewells' = farewells + 1
            /\ chat' = "ended"
            /\ UNCHANGED answer_vars
       ELSE IF strip(line) = ""
       THEN UNCHANGED <<answer_vars, chat, farewells, printed>>
       ELSE /\ Answer(strip(line))
            /\ chat' = (IF outcome' = "raised" THEN "failed" ELSE "running")
            /\ printed' = (IF outcome' = "raised" THEN printed ELSE "Bot: " \o reply' \o "\n")
            /\ UNCHANGED farewells
    /\ UNCHANGED <<turns, text_vars>>

NextChat == StartChat \/ \E line \in ChatLines : ReadLine(line)

SpecChat == Init /\ [][NextChat]_vars

(***************************************************************************)
(* Properties                                                              *)
(***************************************************************************)
\* the last call recorded its question (it went past the greeting test)
Recorded == branch \notin {"none", "control", "greeting"}

\* C1: after any sequence of calls of answer, in either mode, question_history
\* holds at most 10 questions
HistoryBounded == Len(question_history) <= 10

\* a call recorded its question and the history is as long as it can get
HistoryFull == Recorded /\ Len(question_history) = HistoryLimit

\* C2: answer is total: in every reachable state the last call returned a string,
\* and every question, asked next in this mode with this history, ends in a
\* returned string whatever the random choices, never in a raised error
AnswerTotal ==
    /\ outcome # "raised"
    /\ \A text \in Questions :
          LET results == answer(text, sarcasm_mode, question_history)
          IN  results # {} /\ \A r \in results : ~r.raised

\* a call went through find_relevant_context, generate_response and a template of
\* generate_sarcastic_response, and returned
SarcasticReturned ==
    /\ outcome = "returned"
    /\ branch \in {"obvious", "absurd", "too_easy"}
    /\ reply # ""

\* the domain keywords as C3 lists them
DomainKeywords ==
    {"kabaddi", "player", "raider", "defender", "court", "raid", "pkl", "tournament",
     "game", "sport", "team", "match", "originated", "origin"}

\* the questions asked whose lower-cased text contains none of them
KeywordFree ==
    {text \in Questions :
        \A word \in DomainKeywords : ~Contains(word, question_texts[text].question_lower)}

\* the questions asked that get as far as the off-topic test of line 467: no control
\* command, no greeting, no permission question, no "is" question with two numbers,
\* and at least one token
ReachOffTopicTest ==
    {text \in Questions :
        LET q == question_texts[text].q
            question_lower == question_texts[text].question_lower
        IN  /\ question_lower \notin control_commands
            /\ ~is_greeting(question_lower)
            /\ ~is_permission(question_lower)
            /\ ~(startswith(question_lower, "is") /\ Len(findall_digits(q)) >= 2)
            /\ Len(tokenize(q)) > 0}

\* C3 as stated: every question without a domain keyword gets the off-topic
\* redirect, in either mode
OffTopicForEveryKeywordFree ==
    (branch # "none" /\ question \in KeywordFree)
        => reply \in {off_topic_reply(TRUE), off_topic_reply(FALSE)}

\* C3, amended: a question without a domain keyword that gets as far as the
\* off-topic test gets the off-topic redirect of the current mode
OffTopicRedirect ==
    (branch # "none" /\ question \in KeywordFree \cap ReachOffTopicTest)
        => outcome = "returned" /\ reply = off_topic_reply(sarcasm_mode)

\* "what is the capital of france" was answered with sarcasm on
OffTopicAsked ==
    /\ question = "what is the capital of france"
    /\ sarcasm_mode
    /\ reply = off_topic_reply(TRUE)

\* the questions asked that reach the retrieval pipeline and get a non-empty
\* result from the scorer
ReachRetrieval ==
    {text \in ReachOffTopicTest \ KeywordFree :
        /\ ~AnyIn(gap_words, question_texts[text].question_lower)
        /\ Len(context_of[question_texts[text].q]) > 0}

\* the questions asked that match no obvious and no absurd pattern
NoObviousNoAbsurd ==
    {text \in Questions :
        /\ ~matches_any(obvious_questions, question_texts[text].question_lower)
        /\ ~matches_any(absurd_questions, question_texts[text].question_lower)}

\* the last call recorded its question and the two questions recorded before it
\* were the same question
AskedThrice ==
    LET n == Len(question_history)
    IN  /\ Recorded
        /\ n >= 3
        /\ question_history[n] = question_history[n - 1]
        /\ question_history[n - 1] = question_history[n - 2]

\* C4: with sarcasm on, the third consecutive ask of a question that reaches the
\* retrieval pipeline with a non-empty result and matches no obvious or absurd
\* pattern gets "Seriously? I just answered this! " followed by the composed answer
ThirdAskRepetitive ==
    (AskedThrice /\ sarcasm_mode /\ question \in ReachRetrieval \cap NoObviousNoAbsurd)
        => /\ outcome = "returned"
           /\ reply = "Seriously? I just answered this! "
                      \o response_of[question_texts[question].q]

\* "tell me about pkl" was asked three times in a row with sarcasm on, after a
\* different question
ThirdAskAnswered ==
    /\ AskedThrice
    /\ sarcasm_mode
    /\ question = "tell me about pkl"
    /\ Len(question_history) >= 5
    /\ question_history[1] # "tell me about pkl"
    /\ branch = "repetitive"

\* the questions asked that start with hi, hello, hey or hii
GreetingAsked ==
    {text \in Questions :
        \E prefix \in {"hi", "hello", "hey", "hii"} :
            startswith(question_texts[text].question_lower, prefix)}

\* C5: a call with a greeting returns the fixed greeting of the current mode and
\* leaves question_history (and the mode) as it was
GreetingKeepsHistory ==
    [][question' \in GreetingAsked =>
          /\ outcome' = "returned"
          /\ reply' = greeting_reply(sarcasm_mode)
          /\ question_history' = question_history
          /\ sarcasm_mode' = sarcasm_mode]_vars

\* "hello" was answered when questions had been recorded
GreetingAnswered ==
    /\ question = "hello"
    /\ branch = "greeting"
    /\ reply = greeting_reply(sarcasm_mode)
    /\ Len(question_history) > 0

\* the verdict a reply of the court-size verification states
Verdict(text) ==
    IF Contains("The kabaddi court is 13 meters by 10 meters for men's matches", text)
    THEN "mens"
    ELSE IF Contains("women's kabaddi court is 12 meters by 8 meters", text)
    THEN "womens"
    ELSE IF Contains("for men and 12", text) /\ Contains("for women", text)
    THEN "correction"
    ELSE "none"

\* C6: the court-size verification does not depend on the order of the two
\* numbers: the question about a by b gets the verdict of the question about b by
\* a; 13 and 10, and 12 and 8, are confirmed in either order; and "is kabaddi court
\* 13 by 10" is confirmed with "13 meters by 10 meters"
CourtOrderInsensitive ==
    \A a, b \in CourtSizes :
        (branch # "none" /\ question = CourtQuestion(a, b)) =>
            /\ outcome = "returned"
            /\ Verdict(reply) # "none"
            /\ \A swapped \in answer(CourtQuestion(b, a), sarcasm_mode, question_history) :
                  ~swapped.raised /\ Verdict(swapped.reply) = Verdict(reply)
            /\ ({a, b} = {"13", "10"} => Verdict(reply) = "mens")
            /\ ({a, b} = {"12", "8"} => Verdict(reply) = "womens")
            /\ (question = "is kabaddi court 13 by 10" =>
                    /\ Contains("that's correct", reply)
                    /\ Contains("13 meters by 10 meters", reply))

\* the court of 10 by 13 was confirmed as the men's court
SwappedCourtConfirmed ==
    /\ question = CourtQuestion("10", "13")
    /\ branch = "numeric"
    /\ Verdict(reply) = "mens"

\* the branches of answer that called find_relevant_context
RetrievalBranches ==
    {"not_learned", "plain", "obvious", "absurd", "repetitive", "too_easy", "praise"}

\* the (score, sentence) pairs behind the list find_relevant_context returns, for
\* the questions asked that get past the off-topic test
scored_of ==
    Table([q \in {question_texts[text].q : text \in ReachOffTopicTest \ KeywordFree} |->
              scored_context(tokenize(q), q)])

\* where the corpus iteration meets a sentence
sentence_place ==
    Table([sentence \in {strip(corpus_sentences[k]) : k \in 1..Len(corpus_sentences)} |->
              MinOf({k \in 1..Len(corpus_sentences) : strip(corpus_sentences[k]) = sentence})])

\* C7: the list find_relevant_context returns has at most 5 sentences, in
\* non-increasing order of score, sentences of equal score in corpus order
RankedContext ==
    branch \in RetrievalBranches =>
        LET q == question_texts[question].q
            entries == scored_of[q]
            context == context_of[q]
        IN  /\ Len(context) <= 5
            /\ Len(context) = Len(entries)
            /\ \A i \in 1..Len(context) : context[i] = entries[i][2]
            /\ \A i, j \in 1..Len(entries) :
                  i < j => \/ entries[i][1] > entries[j][1]
                           \/ /\ entries[i][1] = entries[j][1]
                              /\ sentence_place[entries[i][2]] < sentence_place[entries[j][2]]

\* a question got five sentences, some of equal and some of different score
RankedFive ==
    /\ branch \in RetrievalBranches
    /\ LET entries == scored_of[question_texts[question].q]
       IN  /\ Len(entries) = 5
           /\ \E i \in 1..4 : entries[i][1] = entries[i + 1][1]
           /\ \E i \in 1..4 : entries[i][1] > entries[i + 1][1]

TerminalPunctuation == {".", "!", "?"}

\* the string starts with an uppercase letter, ends with terminal punctuation and
\* does not end with two punctuation marks
WellFormed(text) ==
    /\ Len(text) > 0
    /\ Char(text, 1) \in UpperSet
    /\ Char(text, Len(text)) \in TerminalPunctuation
    /\ ~(Len(text) >= 2 /\ Char(text, Len(text) - 1) \in TerminalPunctuation)

\* C8 as stated: whatever generate_response returns for a non-empty candidate
\* list, in whichever branch, starts with an uppercase letter, ends with terminal
\* punctuation and does not end with doubled punctuation
ResponseWellFormed ==
    branch \in RetrievalBranches \ {"not_learned"} =>
        WellFormed(response_of[question_texts[question].q])

\* the questions asked that are control commands
ControlAsked ==
    {text \in Questions :
        question_texts[text].question_lower
            \in {"toggle sarcasm", "sarcasm on", "sarcasm off", "be sarcastic", "stop sarcasm"}}

\* the reply states the mode
StatesMode(text, mode) ==
    Contains("Sarcasm mode is now " \o (IF mode THEN "ON" ELSE "OFF") \o "!", text)

\* C9: a control command negates the flag, whatever the flag was and whichever the
\* command, and the reply states the new flag; a second control command then
\* brings the flag back to what it was
ControlNegates ==
    [][question' \in ControlAsked =>
          /\ outcome' = "returned"
          /\ sarcasm_mode' = ~sarcasm_mode
          /\ StatesMode(reply', sarcasm_mode')
          /\ ~StatesMode(reply', sarcasm_mode)
          /\ \A second \in ControlAsked :
                \A r \in answer(second, sarcasm_mode', question_history') :
                    r.sarcasm_mode = sarcasm_mode]_vars

\* "Sarcasm ON" was answered, the second call of the behaviour, and switched the
\* mode off
ControlAnswered ==
    /\ question = "Sarcasm ON"
    /\ branch = "control"
    /\ turns = 2
    /\ ~sarcasm_mode
    /\ StatesMode(reply, FALSE)

\* C10: the reply to a question that reaches the retrieval pipeline with a
\* non-empty result, given with sarcasm on, contains as a contiguous part the
\* answer the question gets with sarcasm off
SarcasmKeepsAnswer ==
    (sarcasm_mode /\ branch \in RetrievalBranches \ {"not_learned"}) =>
        /\ outcome = "returned"
        /\ \A plain \in answer(question, FALSE, <<>>) :
              ~plain.raised /\ plain.branch = "plain" /\ Contains(plain.reply, reply)

\* a sarcastic or praising reply was given that is longer than the plain answer
SarcasmAdded ==
    /\ sarcasm_mode
    /\ branch \in {"obvious", "absurd", "too_easy", "repetitive", "praise"}
    /\ \A plain \in answer(question, FALSE, <<>>) : Len(reply) > Len(plain.reply)

\* C11: a sentence of the corpus, used as the question, gives itself a score of at
\* least 2
SentenceScoresItself ==
    (candidate # "" /\ question = candidate) => score >= 2

\* a sentence was scored against itself, and one that fires no boost for itself
\* got exactly the 2 points of each of its tokens
SentenceScoredItself ==
    /\ candidate # ""
    /\ question = candidate
    /\ score = 2 * Cardinality(Range(tokenize(candidate)))

\* C12: tokenize of the blank-joined tokens of a text gives the tokens of the text
TokenizeIdempotent ==
    /\ retokenized = tokens
    /\ (turns = 1 /\ candidate = "") => tokens = tokenize(join(tokens))

\* a text with capitals, a quote and runs of punctuation was tokenized, and its
\* joined tokens differ from the text
TokenizedTwice ==
    /\ question = "Don't STOP... now?!"
    /\ tokens = <<"dont", "stop...", "now?!">>
    /\ retokenized = tokens
    /\ join(tokens) # question

TeamQuestion == "how many players are in a team"

\* C13: in every reachable state, in either mode, answer("how many players are in
\* a team") returns a reply that contains "seven players", in the sentence of the
\* second passage of the corpus that generate_response picks
TeamSizeAnswered ==
    /\ Contains("seven players", response_of[TeamQuestion])
    /\ Contains(response_of[TeamQuestion], KABADDI_CORPUS[2])
    /\ \A r \in answer(TeamQuestion, sarcasm_mode, question_history) :
          /\ ~r.raised
          /\ Contains("seven players", r.reply)
          /\ Contains(response_of[TeamQuestion], r.reply)
    /\ (branch # "none" /\ question = TeamQuestion) =>
          outcome = "returned" /\ Contains("seven players", reply)

\* the question was asked twice with sarcasm on, and the second reply, on the
\* repetitive branch, has the sentence
TeamSizeRepeated ==
    /\ question = TeamQuestion
    /\ sarcasm_mode
    /\ branch = "repetitive"
    /\ Contains("two teams of seven players each", reply)

\* the questions that get past the off-topic test and for which no sentence of
\* the corpus shares a token with the question or gets a boost
Silent ==
    {q \in DOMAIN scored_of :
        LET words == Range(tokenize(q))
        IN  \A k \in 1..Len(stripped_sentences) :
                /\ words \cap Range(tokenize(stripped_sentences[k])) = {}
                /\ sentence_score(words, lower(q), stripped_sentences[k]) = 0}

\* C14: find_relevant_context returns the empty list exactly when no sentence
\* shares a token with the question and no boost fires, and every sentence it
\* returns has a positive score; on the empty list answer returns the fixed
\* "haven't learned" message of the mode; and the message generate_response has
\* for an empty list is never the reply of answer
NoSignalHandled ==
    /\ reply # "I don't have enough information about that."
    /\ branch \in RetrievalBranches =>
          LET q == question_texts[question].q
          IN  /\ (Len(context_of[q]) = 0) <=> (q \in Silent)
              /\ \A i \in 1..Len(scored_of[q]) : scored_of[q][i][1] > 0
              /\ (Len(context_of[q]) = 0) <=> (branch = "not_learned")
              /\ branch = "not_learned" =>
                    /\ outcome = "returned"
                    /\ reply = IF sarcasm_mode
                               THEN "Wow, you stumped me! I haven't learned about that yet. Maybe try asking something I actually know? Like basics, players, rules, or PKL?"
                               ELSE "I haven't learned enough about that specific topic yet. Try asking about kabaddi basics, players, rules, or Pro Kabaddi League."

\* "kabaddi?" passed the off-topic test, the scorer found nothing, and the
\* sarcastic "haven't learned" message was returned
NothingLearned ==
    /\ question = "kabaddi?"
    /\ sarcasm_mode
    /\ branch = "not_learned"
    /\ Len(context_of["kabaddi?"]) = 0
    /\ Contains("I haven't learned about that yet", reply)

\* the line read is quit, exit or bye, in whatever case
ExitWord(line) ==
    \E word \in {"quit", "exit", "bye"} :
        /\ Len(line) = Len(word)
        /\ \A i \in 1..Len(word) :
              \/ Char(line, i) = Char(word, i)
              \/ \E k \in 1..26 : /\ Char(line, i) = Char(UpperLetters, k)
                                  /\ Char(word, i) = Char(LowerLetters, k)

\* C15: in interactive_chat the first line that is quit, exit or bye after
\* stripping, in whatever case, ends the loop: one farewell line is printed, the
\* sarcastic one if the flag is on then and the plain one otherwise, answer is not
\* called for the line, and nothing is read or answered afterwards
ExitEndsChat ==
    [][/\ chat # "ended"
       /\ farewells = 0
       /\ (chat = "running" /\ ExitWord(user_input')) =>
             /\ chat' = "ended"
             /\ farewells' = 1
             /\ printed' = (IF sarcasm_mode
                            THEN "Bot: Finally! Don't let the door hit you on the way out! [wave]"
                            ELSE "Bot: Goodbye!")
             /\ UNCHANGED answer_vars]_vars

\* a chat in which questions were answered was ended with "EXIT", sarcasm on
ChatEnded ==
    /\ chat = "ended"
    /\ user_input = "EXIT"
    /\ farewells = 1
    /\ sarcasm_mode
    /\ Len(question_history) > 0
    /\ Contains("Finally!", printed)

\* C16: question_history is, in order of asking, the lower-cased stripped text of
\* the last 10 questions that were neither a control command nor a greeting: a
\* call with a control command or a greeting leaves it as it was, and every other
\* call, whatever its reply, adds its question at the end and, if that makes 11,
\* drops the oldest entry
HistoryIsFifo ==
    [][IF question' \in ControlAsked \cup GreetingAsked
       THEN question_history' = question_history
       ELSE LET before == Len(question_history)
                after == Len(question_history')
                dropped == before + 1 - after
            IN  /\ after = (IF before < 10 THEN before + 1 ELSE 10)
                /\ question_history'[after] = lower(strip(question'))
                /\ \A i \in 1..(after - 1) : question_history'[i] = question_history[i + dropped]
      ]_vars

\* twelve questions were recorded: the history holds the last ten, the permission
\* question, the empty question and the known-gap question at its end
HistoryOverflowed ==
    /\ turns = 12
    /\ Len(question_history) = 10
    /\ question_history[1] = "what is kabaddi"
    /\ question_history[8] = "can i play kabaddi"
    /\ question_history[9] = ""
    /\ question_history[10] = "who won the kabaddi olympics gold medal"
    /\ branch = "known_gap"

\* how often the question of the call occurs among the last three questions
\* recorded before the call
AskedBefore ==
    LET n == Len(question_history)
    IN  Cardinality({i \in 1..n : /\ i > n - 3
                                  /\ question_history[i] = lower(strip(question'))})

\* C17: the repetitive branch is taken only when the question occurs at least
\* twice among the last three questions recorded before the call: the second ask
\* in a row does not take it
RepetitiveAfterTwoAsks ==
    [][branch' = "repetitive" => AskedBefore >= 2]_vars

\* the questions asked that start with can, could or may, a space, and i or we
PermissionAsked ==
    {text \in Questions :
        \E opening \in {"can i", "can we", "could i", "could we", "may i", "may we"} :
            startswith(question_texts[text].question_lower, opening)}

\* the questions asked that start with "is" and contain at least two numbers
TwoNumbersAsked ==
    {text \in Questions :
        /\ startswith(question_texts[text].question_lower, "is")
        /\ Len(findall_digits(question_texts[text].q)) >= 2}

\* the questions asked that mention a topic known to be missing
GapTopicAsked ==
    {text \in Questions :
        \E topic \in {"gold medal", "olympics", "medal", "championship winner"} :
            Contains(topic, question_texts[text].question_lower)}

\* the step of the policy that decides the reply to text: the first that matches
DecidingStep(text) ==
    IF text \in ControlAsked THEN "control"
    ELSE IF text \in GreetingAsked THEN "greeting"
    ELSE IF text \in PermissionAsked THEN "permission"
    ELSE IF text \in TwoNumbersAsked THEN "numeric"
    ELSE IF Len(tokenize(text)) = 0 THEN "reprompt"
    ELSE IF text \in KeywordFree THEN "off_topic"
    ELSE IF text \in GapTopicAsked THEN "known_gap"
    ELSE "retrieval"

\* the verdict on the first two numbers of text
FirstTwoNumbers(text) ==
    LET numbers == findall_digits(text)
    IN  IF {numbers[1], numbers[2]} = {"13", "10"} THEN "mens"
        ELSE IF {numbers[1], numbers[2]} = {"12", "8"} THEN "womens"
        ELSE "correction"

\* C18: the policy is evaluated in the order control command, greeting, history
\* update, permission, numeric verification, empty tokens, off-topic, known-gap,
\* retrieval, and the first match decides the reply; a question that starts with
\* "is" and has at least two numbers, and is no greeting and no permission
\* question, gets the verdict on its first two numbers, domain keyword or not,
\* known-gap topic or not; and the known-gap message is the reply only to a
\* question with a domain keyword
PolicyInOrder ==
    branch # "none" =>
        /\ (IF branch \in RetrievalBranches THEN "retrieval" ELSE branch) = DecidingStep(question)
        /\ question \notin ControlAsked \cup GreetingAsked => Recorded
        /\ DecidingStep(question) = "permission" => reply = permission_reply(sarcasm_mode)
        /\ DecidingStep(question) = "reprompt" => reply = reprompt_reply
        /\ DecidingStep(question) = "off_topic" => reply = off_topic_reply(sarcasm_mode)
        /\ DecidingStep(question) = "known_gap" => reply = known_gap_reply(sarcasm_mode)
        /\ question \in TwoNumbersAsked \ (GreetingAsked \cup PermissionAsked) =>
              /\ outcome = "returned"
              /\ Verdict(reply) = FirstTwoNumbers(question)
        /\ reply \in {known_gap_reply(TRUE), known_gap_reply(FALSE)} =>
              question \notin KeywordFree

\* "is the medal count 3 or 4", with a known-gap topic and no domain keyword, was
\* answered with the correction of the court sizes
MedalCountVerified ==
    /\ question = "is the medal count 3 or 4"
    /\ question \in (GapTopicAsked \cap KeywordFree) \ (GreetingAsked \cup PermissionAsked)
    /\ branch = "numeric"
    /\ Verdict(reply) = "correction"
    /\ Len(question_history) = 2

\* C19: with sarcasm off the reply of answer depends on the text of the question
\* alone: whatever the history, it is the reply the same question gets on an empty
\* history; and no call other than a control command changes the flag
ReplyFromTextAlone ==
    [][/\ ~sarcasm_mode =>
             /\ outcome' = "returned"
             /\ \A fresh \in answer(question', FALSE, <<>>) :
                   ~fresh.raised /\ reply' = fresh.reply
       /\ question' \notin ControlAsked => sarcasm_mode' = sarcasm_mode]_vars

\* "tell me about pkl" was asked twice in a row with sarcasm off and got the plain
\* answer again
PlainAnswerRepeated ==
    /\ ~sarcasm_mode
    /\ turns = 2
    /\ question = "tell me about pkl"
    /\ question_history = <<"tell me about pkl", "tell me about pkl">>
    /\ branch = "plain"
    /\ reply = response_of["tell me about pkl"]

====
